---- MODULE Spec2Model ----
(***************************************************************************)
(* A model of the elevator bank of src/main.py: the Building with its      *)
(* ElevatorCars, the ElevatorController with its three dispatch strategies *)
(* and the LookAlgorithm movement strategy.                                *)
(*                                                                         *)
(* Five specifications share the same operators:                           *)
(*   Spec      a Building after construction, driven through its public    *)
(*             entry points (handle_external_request,                      *)
(*             press_internal_button, process_requests,                    *)
(*             process_all_requests), one action per call;                 *)
(*   CallSpec  the same Building, with the last request call kept as       *)
(*             history;                                                    *)
(*   LookSpec  LookAlgorithm.process_requests applied to one elevator      *)
(*             whose fields are drawn from bounded sets (the strategy      *)
(*             takes any elevator object as its argument), one action per  *)
(*             line of the algorithm;                                      *)
(*   MainSpec  the __main__ block of src/main.py, one action per statement *)
(*             and per line of the algorithm;                              *)
(*   CycleSpec a Building driven through its public entry points, one      *)
(*             action per request call and per line of the algorithm       *)
(*             (CycleLiveSpec: the same, with a running call never         *)
(*             stopping between two lines).                                *)
(***************************************************************************)
EXTENDS Integers, Sequences, FiniteSets, TLC

\* ---------------------------------------------------------------- bounds
\* Number of floors of the Building of Spec and CallSpec.
MaxFloors == 3
\* Most requests (cabin + hall) pending in that Building at once.
MaxPending == 2
\* Floors the elevator of LookSpec can be at or be asked to, and the most
\* entries of its Request Store.
LookFloors == 5
LookPending == 3
\* Number of floors of the Building of CycleSpec.
CycleFloors == 2

\* ------------------------------------------------------ program constants
\* Building(num_floors=10, num_elevators=3, ...) in __main__.
MainFloors == 10
NumElevators == 3
\* Target car ids of the three dispatch strategies.
OddCar == 0
EvenCar == 1
FixedCar == 2

VARIABLES
    num_floors,     \* Building: len(self.floors)
    fixed_floors,   \* FixedDispatcher.fixed_floors
    elevators,      \* Building.elevators: id -> ElevatorCar
    frame,          \* the running call of LookAlgorithm.process_requests (MainSpec,
                    \* LookSpec): its position, its elevator and its locals
    all_next,       \* the running call of process_all_requests (MainSpec): id of
                    \* the next car, -1 if not running
    main_done,      \* MainSpec: source lines of __main__ already executed
    last_op,        \* history: the last public entry point called
    trace,          \* history: calls and prints of the processing call in progress
                    \* or just finished (dropped before the next call is made)
    start           \* history: each car's state when its cycle of `trace` began

vars == <<num_floors, fixed_floors, elevators, frame, all_next, main_done,
          last_op, trace, start>>

Direction == {"UP", "DOWN", "IDLE"}
Status == {"MOVING", "STOPPED", "IDLE"}
Floors == 0 .. (num_floors - 1)
Ids == DOMAIN elevators

\* ------------------------------------------------------------- observers
\* One record per call or print, in program order.
\*   "at"       Display.show_movement prints "Elevator <car> at floor <floor>"
\*   "arrive"   ElevatorCar.move_to_floor has set current_floor/direction/status
\*   "display"  Display.update prints "Elevator <car> - Floor: .., Direction: .."
\*   "logger"   Logger.update prints "[Logger] Elevator <car> updated"
\*   "clear"    LookAlgorithm.process_requests has run lines 96-99
Ev(kind, car, floor, dir) ==
    [kind |-> kind, car |-> car, floor |-> floor, dir |-> dir]

Display(elevator_id) ==
    [elevator_id |-> elevator_id, current_floor |-> 0, direction |-> "IDLE"]

Logger(elevator_id) == [elevator_id |-> elevator_id]

\* Display.update: prints the display's own current_floor and direction.
DisplayUpdate(d) == Ev("display", d.elevator_id, d.current_floor, d.direction)

\* Logger.update
LoggerUpdate(l) == Ev("logger", l.elevator_id, -1, "IDLE")

\* range(current + step, target + step, step) of Display.show_movement
ShowMovementSkip(d, current, target) ==
    IF target = current THEN <<>>
    ELSE <<Ev("at", d.elevator_id, target, "IDLE")>>

ShowMovementOvershoot(d, current, target) ==
    LET step == IF target > current THEN 1 ELSE -1
        n == IF target > current THEN target - current ELSE current - target
    IN  IF n = 0 THEN <<>>
        ELSE [i \in 1 .. (n + 1) |-> Ev("at", d.elevator_id, current + step * i, "IDLE")]

ShowMovement(d, current, target) ==
    LET step == IF target > current THEN 1 ELSE -1
        n == IF target > current THEN target - current ELSE current - target
    IN  [i \in 1 .. n |-> Ev("at", d.elevator_id, current + step * i, "IDLE")]

\* --------------------------------------------------------- ElevatorCar
ElevatorCar(id) ==
    [id |-> id,
     current_floor |-> 0,
     status |-> "IDLE",
     direction |-> "IDLE",
     internal_requests |-> <<>>,
     external_requests |-> {},      \* dict floor -> direction, as <<floor, direction>> pairs
     display |-> Display(id),
     logger |-> Logger(id)]

SeqRange(s) == {s[i] : i \in DOMAIN s}
Keys(ext) == {p[1] : p \in ext}

\* ElevatorCar.press_internal_button
PressInternalAlways(e, floor) ==
    [e EXCEPT !.internal_requests = Append(@, floor)]

PressInternalButton(e, floor) ==
    IF floor \notin SeqRange(e.internal_requests)
    THEN [e EXCEPT !.internal_requests = Append(@, floor)]
    ELSE e

\* ElevatorCar.add_external_request
AddExternalOverwrite(e, floor, direction) ==
    [e EXCEPT !.external_requests =
        {p \in @ : p[1] # floor} \cup {<<floor, direction>>}]

AddExternalHeading(e, floor, direction) ==
    IF floor \notin Keys(e.external_requests)
    THEN [e EXCEPT !.external_requests = @ \cup {<<floor, direction>>},
                   !.direction = direction]
    ELSE e

AddExternalRequest(e, floor, direction) ==
    IF floor \notin Keys(e.external_requests)
    THEN [e EXCEPT !.external_requests = @ \cup {<<floor, direction>>}]
    ELSE e

\* ElevatorObservable.notify over observers = [display, logger]
Notify(e) == <<DisplayUpdate(e.display), LoggerUpdate(e.logger)>>

\* ElevatorCar.move_to_floor: the fields it assigns ...
MoveToFloorMoving(e, floor) ==
    [e EXCEPT !.direction = IF floor > e.current_floor THEN "UP"
                            ELSE IF floor < e.current_floor THEN "DOWN"
                            ELSE "IDLE",
              !.current_floor = floor,
              !.status = "MOVING"]

MoveToFloor(e, floor) ==
    [e EXCEPT !.direction = IF floor > e.current_floor THEN "UP"
                            ELSE IF floor < e.current_floor THEN "DOWN"
                            ELSE "IDLE",
              !.current_floor = floor,
              !.status = "STOPPED"]

\* ... and what it calls, in order: show_movement, the assignments, notify.
MoveEvents(e, floor) ==
    ShowMovement(e.display, e.current_floor, floor)
    \o <<Ev("arrive", e.id, floor, MoveToFloor(e, floor).direction)>>
    \o Notify(MoveToFloor(e, floor))

\* ------------------------------------------------- dispatch strategies
OddFirstMatchOnly(els, floor, direction) ==
    IF floor % 2 = 1 /\ OddCar \in DOMAIN els /\ floor \notin fixed_floors
    THEN [els EXCEPT ![OddCar] = AddExternalRequest(@, floor, direction)]
    ELSE els

OddIfUnassigned(els, floor, direction) ==
    IF /\ floor % 2 = 1 /\ OddCar \in DOMAIN els
       /\ \A c \in DOMAIN els : floor \notin Keys(els[c].external_requests)
    THEN [els EXCEPT ![OddCar] = AddExternalRequest(@, floor, direction)]
    ELSE els

OddDispatcher(els, floor, direction) ==
    IF floor % 2 = 1 /\ OddCar \in DOMAIN els
    THEN [els EXCEPT ![OddCar] = AddExternalRequest(@, floor, direction)]
    ELSE els

EvenFallsBack(els, floor, direction) ==
    IF floor % 2 = 0
    THEN IF EvenCar \in DOMAIN els
         THEN [els EXCEPT ![EvenCar] = AddExternalRequest(@, floor, direction)]
         ELSE [els EXCEPT ![OddCar] = AddExternalRequest(@, floor, direction)]
    ELSE els

EvenDispatcher(els, floor, direction) ==
    IF floor % 2 = 0 /\ EvenCar \in DOMAIN els
    THEN [els EXCEPT ![EvenCar] = AddExternalRequest(@, floor, direction)]
    ELSE els

FixedDispatcher(els, floor, direction) ==
    IF floor \in fixed_floors /\ FixedCar \in DOMAIN els
    THEN [els EXCEPT ![FixedCar] = AddExternalRequest(@, floor, direction)]
    ELSE els

\* ElevatorController.strategies
strategies == <<"OddDispatcher", "EvenDispatcher", "FixedDispatcher">>

AssignElevator(strategy, els, floor, direction) ==
    CASE strategy = "OddDispatcher" -> OddDispatcher(els, floor, direction)
      [] strategy = "EvenDispatcher" -> EvenDispatcher(els, floor, direction)
      [] strategy = "FixedDispatcher" -> FixedDispatcher(els, floor, direction)

\* ElevatorController.handle_external_request: every strategy of the list, in order.
RECURSIVE ApplyStrategies(_, _, _, _)
ApplyStrategies(list, els, floor, direction) ==
    IF list = <<>> THEN els
    ELSE ApplyStrategies(Tail(list),
                         AssignElevator(Head(list), els, floor, direction),
                         floor, direction)

HandleFirstMatch(els, floor, direction) ==
    IF OddDispatcher(els, floor, direction) # els
    THEN OddDispatcher(els, floor, direction)
    ELSE IF EvenDispatcher(els, floor, direction) # els
    THEN EvenDispatcher(els, floor, direction)
    ELSE FixedDispatcher(els, floor, direction)

HandleExternalRequest(els, floor, direction) ==
    ApplyStrategies(strategies, els, floor, direction)

\* ------------------------------------------------------- LookAlgorithm
\* line 73: set(internal_requests + list(external_requests.keys()))
RequestsInternalOnly(e) == SeqRange(e.internal_requests)

RequestsUpCallsOnly(e) ==
    SeqRange(e.internal_requests) \cup {p[1] : p \in {q \in e.external_requests : q[2] = "UP"}}

Requests(e) == SeqRange(e.internal_requests) \cup Keys(e.external_requests)

\* heapq on a list without duplicates: the heap as the set of its elements.
HeapPush(h, x) == h \cup {x}
HeapTopMax(h) == CHOOSE x \in h : \A y \in h : y <= x
HeapTop(h) == CHOOSE x \in h : \A y \in h : x <= y

\* elevator.move_to_floor(floor) called from the running algorithm
Visit(fr, floor) ==
    [fr EXCEPT !.e = MoveToFloor(@, floor),
               !.out = @ \o MoveEvents(fr.e, floor)]

\* A call of LookAlgorithm.process_requests(elevator) is a frame:
\*   pc         the line it is at
\*   e          the elevator it works on
\*   requests   what the for loop of line 78 has not yet taken
\*   up_heap, down_heap   lines 75-76 (down_heap holds negated floors)
\*   out        the calls and prints it has made so far
NoFrame == [pc |-> "ready"]

\* lines 73-76
Line73(e) ==
    [pc |-> "for78", e |-> e, requests |-> Requests(e),
     up_heap |-> {}, down_heap |-> {}, out |-> <<>>]

\* lines 78-84: the iteration that takes `floor`
For78(fr, floor) ==
    IF floor > fr.e.current_floor
    THEN [fr EXCEPT !.requests = @ \ {floor}, !.up_heap = HeapPush(@, floor)]
    ELSE IF floor < fr.e.current_floor
    THEN [fr EXCEPT !.requests = @ \ {floor}, !.down_heap = HeapPush(@, -floor)]
    ELSE [Visit(fr, floor) EXCEPT !.requests = @ \ {floor}]

\* line 86
If86(fr) ==
    [fr EXCEPT !.pc = IF fr.e.direction \in {"IDLE", "UP"} THEN "while87" ELSE "if91"]

\* lines 87-89: one test of the loop condition
While87(fr) ==
    IF fr.up_heap # {}
    THEN [Visit(fr, HeapTop(fr.up_heap)) EXCEPT !.up_heap = @ \ {HeapTop(fr.up_heap)}]
    ELSE [fr EXCEPT !.pc = "if91"]

\* line 91
If91(fr) ==
    [fr EXCEPT !.pc = IF fr.e.direction \in {"IDLE", "DOWN"} \/ fr.up_heap = {}
                      THEN "while92" ELSE "end96"]

\* lines 92-94: one test of the loop condition
While92NoPop(fr) ==
    IF fr.down_heap # {} THEN fr ELSE [fr EXCEPT !.pc = "end96"]

While92(fr) ==
    IF fr.down_heap # {}
    THEN [Visit(fr, -HeapTop(fr.down_heap))
            EXCEPT !.down_heap = @ \ {HeapTop(fr.down_heap)}]
    ELSE [fr EXCEPT !.pc = "end96"]

\* lines 96-99
EndKeepsExternal(e) ==
    [e EXCEPT !.status = "IDLE", !.direction = "IDLE", !.internal_requests = <<>>]

EndKeepsDirection(e) ==
    [e EXCEPT !.status = "IDLE",
              !.internal_requests = <<>>, !.external_requests = {}]

EndReturnsToGround(e) ==
    [e EXCEPT !.status = "IDLE", !.direction = "IDLE", !.current_floor = 0,
              !.internal_requests = <<>>, !.external_requests = {}]

EndOfCycle(e) ==
    [e EXCEPT !.status = "IDLE", !.direction = "IDLE",
              !.internal_requests = <<>>, !.external_requests = {}]

End96(fr) ==
    [fr EXCEPT !.pc = "return", !.e = EndOfCycle(@),
               !.out = Append(@, Ev("clear", fr.e.id, -1, "IDLE"))]

\* The frames one step of the algorithm leads to. A set is iterated in no
\* specified order, hence the choice at line 78.
Successors(fr) ==
    CASE fr.pc = "for78" /\ fr.requests # {} -> {For78(fr, floor) : floor \in fr.requests}
      [] fr.pc = "for78" /\ fr.requests = {} -> {If86(fr)}
      [] fr.pc = "while87" -> {While87(fr)}
      [] fr.pc = "if91" -> {If91(fr)}
      [] fr.pc = "while92" -> {While92(fr)}
      [] fr.pc = "end96" -> {End96(fr)}
      [] OTHER -> {}

\* The frames in which the calls that have reached the frames of S can return.
RECURSIVE Returns(_)
Returns(S) ==
    IF \A fr \in S : fr.pc = "return" THEN S
    ELSE Returns(UNION {IF fr.pc = "return" THEN {fr} ELSE Successors(fr) : fr \in S})

\* ElevatorCar.process_requests: self.strategy.process_requests(self), run to its return
ProcessRequests(e) == Returns({Line73(e)})

\* ------------------------------------------------------------ building
\* Building.__init__
Building(n) == [i \in 0 .. (n - 1) |-> ElevatorCar(i)]

\* history: the elevator a cycle starts from
Snapshot(e) == [begun |-> TRUE, e |-> e]
NoStart == [begun |-> FALSE]
NoOp == [op |-> "none", car |-> -1, floor |-> -1, dir |-> "IDLE", repeat |-> FALSE]

\* Building.process_all_requests from car i on: self.elevators.values() is in
\* insertion order, which is id order. Each result holds the elevators, the
\* calls and prints made, and the cycles' starting points.
RECURSIVE ProcessAllFrom(_, _)
ProcessAllFrom(i, r) ==
    IF i \notin DOMAIN r.els THEN {r}
    ELSE UNION {ProcessAllFrom(i + 1,
                    [els |-> [r.els EXCEPT ![i] = fin.e],
                     out |-> r.out \o fin.out,
                     start |-> [r.start EXCEPT ![i] = Snapshot(r.els[i])]])
                : fin \in ProcessRequests(r.els[i])}

ProcessAllRequests(els) ==
    ProcessAllFrom(0, [els |-> els, out |-> <<>>,
                       start |-> [i \in DOMAIN els |-> NoStart]])

\* Requests pending in the cars from id i on.
RECURSIVE PendingFrom(_, _)
PendingFrom(els, i) ==
    IF i \notin DOMAIN els THEN 0
    ELSE Len(els[i].internal_requests) + Cardinality(els[i].external_requests)
         + PendingFrom(els, i + 1)

Pending(els) == PendingFrom(els, 0)

Quiet == frame.pc = "ready" /\ all_next = -1

\* history: no record of a finished processing call is being kept
NoRecord == trace = <<>> /\ \A i \in Ids : ~start[i].begun

\* ------------------------------------------------ public entry points
\* ElevatorController.handle_external_request(floor, direction)
handle_external_request(floor, direction) ==
    /\ Quiet /\ NoRecord
    /\ elevators' = HandleExternalRequest(elevators, floor, direction)
    /\ UNCHANGED <<num_floors, fixed_floors, frame, all_next, trace, start>>

\* ElevatorCar.press_internal_button(floor) on car c
press_internal_button(c, floor) ==
    /\ Quiet /\ NoRecord
    /\ elevators' = [elevators EXCEPT ![c] = PressInternalButton(@, floor)]
    /\ UNCHANGED <<num_floors, fixed_floors, frame, all_next, trace, start>>

\* ElevatorCar.process_requests() on car c, from the call to its return
process_requests(c) ==
    /\ Quiet /\ NoRecord
    /\ \E fin \in ProcessRequests(elevators[c]) :
        /\ elevators' = [elevators EXCEPT ![c] = fin.e]
        /\ trace' = fin.out
    /\ start' = [i \in Ids |-> IF i = c THEN Snapshot(elevators[c]) ELSE NoStart]
    /\ UNCHANGED <<num_floors, fixed_floors, frame, all_next>>

\* Building.process_all_requests(), from the call to its return
process_all_requests ==
    /\ Quiet /\ NoRecord
    /\ \E r \in ProcessAllRequests(elevators) :
        /\ elevators' = r.els
        /\ trace' = r.out
        /\ start' = r.start
    /\ UNCHANGED <<num_floors, fixed_floors, frame, all_next>>

\* history: the record of the processing call that has returned is dropped
\* before the caller makes its next call
Forget ==
    /\ Quiet /\ ~NoRecord
    /\ trace' = <<>>
    /\ start' = [i \in Ids |-> NoStart]
    /\ UNCHANGED <<num_floors, fixed_floors, elevators, frame, all_next, main_done,
                   last_op>>

\* history: the request call just made, and whether its floor was already
\* pending in a store it was offered to
HallCalled(floor, direction) ==
    [op |-> "handle_external_request", car |-> -1, floor |-> floor, dir |-> direction,
     repeat |-> \E c \in Ids : floor \in Keys(elevators[c].external_requests)]

CabinPressed(c, floor) ==
    [op |-> "press_internal_button", car |-> c, floor |-> floor, dir |-> "IDLE",
     repeat |-> floor \in SeqRange(elevators[c].internal_requests)]

\* ------------------------------------------------------------------ Spec
\* A Building of MaxFloors floors with one to NumElevators cars; callers name
\* floors of the building and leave no more than MaxPending requests pending.
Init ==
    /\ num_floors = MaxFloors
    /\ fixed_floors = {0, 1}
    /\ \E n \in 1 .. NumElevators : elevators = Building(n)
    /\ frame = NoFrame
    /\ all_next = -1
    /\ main_done = {}
    /\ last_op = NoOp
    /\ trace = <<>>
    /\ start = [i \in DOMAIN elevators |-> NoStart]

HallCall ==
    /\ \E floor \in Floors, direction \in {"UP", "DOWN"} :
        /\ handle_external_request(floor, direction)
        /\ Pending(elevators') <= MaxPending
    /\ UNCHANGED <<main_done, last_op>>

CabinRequest ==
    /\ \E c \in Ids, floor \in Floors :
        /\ press_internal_button(c, floor)
        /\ Pending(elevators') <= MaxPending
    /\ UNCHANGED <<main_done, last_op>>

ProcessOne ==
    /\ \E c \in Ids : process_requests(c)
    /\ UNCHANGED <<main_done, last_op>>

ProcessAll ==
    /\ process_all_requests
    /\ UNCHANGED <<main_done, last_op>>

Next == HallCall \/ CabinRequest \/ ProcessOne \/ ProcessAll \/ Forget

Spec == Init /\ [][Next]_vars

\* -------------------------------------------------------------- CallSpec
\* The same Building and callers, with each request call recorded in last_op.
RecordedHallCall ==
    /\ \E floor \in Floors, direction \in {"UP", "DOWN"} :
        /\ handle_external_request(floor, direction)
        /\ Pending(elevators') <= MaxPending
        /\ last_op' = HallCalled(floor, direction)
    /\ UNCHANGED main_done

RecordedCabinRequest ==
    /\ \E c \in Ids, floor \in Floors :
        /\ press_internal_button(c, floor)
        /\ Pending(elevators') <= MaxPending
        /\ last_op' = CabinPressed(c, floor)
    /\ UNCHANGED main_done

RecordedProcessAll ==
    /\ process_all_requests
    /\ last_op' = NoOp
    /\ UNCHANGED main_done

CallNext == RecordedHallCall \/ RecordedCabinRequest \/ RecordedProcessAll \/ Forget

CallSpec == Init /\ [][CallNext]_vars

\* ------------------------- LookAlgorithm.process_requests, line by line
\* The running call moves to frame fr: the elevator is the caller's object,
\* and what the step printed or called is appended to the record.
StepTo(fr) ==
    /\ frame' = fr
    /\ elevators' = [elevators EXCEPT ![fr.e.id] = fr.e]
    /\ trace' = trace \o SubSeq(fr.out, Len(frame.out) + 1, Len(fr.out))
    /\ UNCHANGED <<num_floors, fixed_floors, all_next, main_done, last_op, start>>

\* elevator.process_requests() is called on car c
Call(c) ==
    /\ frame.pc = "ready"
    /\ frame' = Line73(elevators[c])
    /\ start' = [start EXCEPT ![c] = Snapshot(elevators[c])]
    /\ UNCHANGED <<num_floors, fixed_floors, elevators, main_done, last_op, trace>>

AtFor78 ==
    /\ frame.pc = "for78"
    /\ \E floor \in frame.requests : StepTo(For78(frame, floor))

AtIf86 == frame.pc = "for78" /\ frame.requests = {} /\ StepTo(If86(frame))

AtWhile87 == frame.pc = "while87" /\ StepTo(While87(frame))

AtIf91 == frame.pc = "if91" /\ StepTo(If91(frame))

AtWhile92 == frame.pc = "while92" /\ StepTo(While92(frame))

AtEnd96 == frame.pc = "end96" /\ StepTo(End96(frame))

Return ==
    /\ frame.pc = "return"
    /\ frame' = NoFrame
    /\ UNCHANGED <<num_floors, fixed_floors, elevators, all_next, main_done, last_op,
                   trace, start>>

\* -------------------------------------------------------------- LookSpec
\* One elevator in any state its fields can hold: a floor, a direction, a
\* status, and a Request Store of at most LookPending entries, without
\* duplicates as press_internal_button and add_external_request keep it.
Stores ==
    {st \in [internal : UNION {[1 .. n -> 0 .. (LookFloors - 1)] : n \in 0 .. LookPending},
             external : SUBSET ((0 .. (LookFloors - 1)) \X {"UP", "DOWN"})] :
        /\ Len(st.internal) + Cardinality(st.external) <= LookPending
        /\ Cardinality(SeqRange(st.internal)) = Len(st.internal)
        /\ Cardinality(Keys(st.external)) = Cardinality(st.external)}

LookInit ==
    /\ num_floors = LookFloors
    /\ fixed_floors = {}
    /\ \E floor \in 0 .. (LookFloors - 1), direction \in Direction, status \in Status,
          st \in Stores :
        elevators = [i \in {0} |->
            [ElevatorCar(0) EXCEPT !.current_floor = floor, !.direction = direction,
                                   !.status = status,
                                   !.internal_requests = st.internal,
                                   !.external_requests = st.external]]
    /\ frame = NoFrame
    /\ all_next = -1
    /\ main_done = {}
    /\ last_op = NoOp
    /\ trace = <<>>
    /\ start = [i \in {0} |-> NoStart]

LookCall == ~start[0].begun /\ Call(0) /\ UNCHANGED all_next

LookNext ==
    LookCall \/ AtFor78 \/ AtIf86 \/ AtWhile87 \/ AtIf91 \/ AtWhile92 \/ AtEnd96 \/ Return

LookSpec == LookInit /\ [][LookNext]_vars

\* -------------------------------------------------------------- MainSpec
\* __main__: the statements of lines 218-224 are independent calls, taken
\* here in any order (the order of the file is one of them); line 226 follows.
MainHallCalls ==
    {[line |-> 218, floor |-> 3, direction |-> "UP"],
     [line |-> 219, floor |-> 4, direction |-> "UP"],
     [line |-> 220, floor |-> 5, direction |-> "DOWN"]}

MainCabinRequests ==
    {[line |-> 222, car |-> 0, floor |-> 7],
     [line |-> 223, car |-> 1, floor |-> 8],
     [line |-> 224, car |-> 2, floor |-> 9]}

MainInit ==
    /\ num_floors = MainFloors
    /\ fixed_floors = {0, 5, 9}
    /\ elevators = Building(NumElevators)
    /\ frame = NoFrame
    /\ all_next = -1
    /\ main_done = {}
    /\ last_op = NoOp
    /\ trace = <<>>
    /\ start = [i \in DOMAIN elevators |-> NoStart]

\* building.floors[f].press_external_button(d): the controller's handle_external_request
MainPressExternal ==
    \E s \in MainHallCalls :
        /\ s.line \notin main_done
        /\ 226 \notin main_done
        /\ handle_external_request(s.floor, s.direction)
        /\ main_done' = main_done \cup {s.line}
        /\ last_op' = HallCalled(s.floor, s.direction)

\* building.elevators[c].press_internal_button(f)
MainPressInternal ==
    \E s \in MainCabinRequests :
        /\ s.line \notin main_done
        /\ 226 \notin main_done
        /\ press_internal_button(s.car, s.floor)
        /\ main_done' = main_done \cup {s.line}
        /\ last_op' = CabinPressed(s.car, s.floor)

\* line 226: building.process_all_requests() is called
MainProcessAll ==
    /\ Quiet
    /\ main_done = {218, 219, 220, 222, 223, 224}
    /\ main_done' = main_done \cup {226}
    /\ all_next' = 0
    /\ UNCHANGED <<num_floors, fixed_floors, elevators, frame, last_op, trace, start>>

\* lines 210-211: the next elevator of self.elevators.values() (insertion
\* order, which is id order)
ProcessAllBackwards ==
    /\ all_next \in Ids
    /\ Call(Cardinality(Ids) - 1 - all_next)
    /\ all_next' = all_next + 1

ProcessAllNext ==
    /\ all_next \in Ids
    /\ Call(all_next)
    /\ all_next' = all_next + 1

\* the loop of line 210 is exhausted
ProcessAllReturn ==
    /\ frame.pc = "ready"
    /\ all_next # -1
    /\ all_next \notin Ids
    /\ all_next' = -1
    /\ UNCHANGED <<num_floors, fixed_floors, elevators, frame, main_done, last_op,
                   trace, start>>

MainNext ==
    \/ MainPressExternal
    \/ MainPressInternal
    \/ MainProcessAll
    \/ ProcessAllNext
    \/ ProcessAllReturn
    \/ AtFor78 \/ AtIf86 \/ AtWhile87 \/ AtIf91 \/ AtWhile92 \/ AtEnd96 \/ Return

MainSpec == MainInit /\ [][MainNext]_vars

\* ------------------------------------------------------------- CycleSpec
\* A Building of CycleFloors floors and the callers of Spec, with the
\* processing calls run one line of the algorithm at a time. The program has
\* one thread: no call is made while another is running.
CycleInit ==
    /\ num_floors = CycleFloors
    /\ fixed_floors = {0, 1}
    /\ \E n \in 1 .. NumElevators : elevators = Building(n)
    /\ frame = NoFrame
    /\ all_next = -1
    /\ main_done = {}
    /\ last_op = NoOp
    /\ trace = <<>>
    /\ start = [i \in DOMAIN elevators |-> NoStart]

CycleCall ==
    /\ Quiet /\ NoRecord
    /\ \E c \in Ids : Call(c)
    /\ UNCHANGED all_next

\* building.process_all_requests() is called
CycleProcessAll ==
    /\ Quiet /\ NoRecord
    /\ all_next' = 0
    /\ UNCHANGED <<num_floors, fixed_floors, elevators, frame, main_done, last_op,
                   trace, start>>

CycleNext ==
    \/ HallCall
    \/ CabinRequest
    \/ CycleCall
    \/ CycleProcessAll
    \/ ProcessAllNext
    \/ ProcessAllReturn
    \/ AtFor78 \/ AtIf86 \/ AtWhile87 \/ AtIf91 \/ AtWhile92 \/ AtEnd96 \/ Return
    \/ Forget

CycleSpec == CycleInit /\ [][CycleNext]_vars

\* A call that is running runs on: the interpreter executes the next line of
\* process_all_requests or of the algorithm. Callers are free to make no
\* further call.
CycleRun ==
    \/ ProcessAllNext
    \/ ProcessAllReturn
    \/ AtFor78 \/ AtIf86 \/ AtWhile87 \/ AtIf91 \/ AtWhile92 \/ AtEnd96 \/ Return

CycleLiveSpec == CycleInit /\ [][CycleNext]_vars /\ WF_vars(CycleRun)

\* ======================================================== properties
\* What the record of the last processing call says about car c.
EventsOf(c) == SelectSeq(trace, LAMBDA ev : ev.car = c)
FloorsOf(evs, kind) ==
    LET s == SelectSeq(evs, LAMBDA ev : ev.kind = kind)
    IN  [i \in DOMAIN s |-> s[i].floor]
\* the floors car c arrived at (move_to_floor calls), in order
Arrivals(c) == FloorsOf(EventsOf(c), "arrive")
\* the floors car c was reported at while travelling, in order
Traversed(c) == FloorsOf(EventsOf(c), "at")
\* car c's cycle has run to its end (lines 96-99 included)
CycleDone(c) ==
    /\ start[c].begun
    /\ \E i \in DOMAIN trace : trace[i].kind = "clear" /\ trace[i].car = c
StartFloor(c) == start[c].e.current_floor
StartDirection(c) == start[c].e.direction
StartCabin(c) == SeqRange(start[c].e.internal_requests)
StartHall(c) == Keys(start[c].e.external_requests)
StartPending(c) == StartCabin(c) \cup StartHall(c)
Above(c) == {f \in StartPending(c) : f > StartFloor(c)}
Below(c) == {f \in StartPending(c) : f < StartFloor(c)}
Without(s, x) == SelectSeq(s, LAMBDA y : y # x)

RECURSIVE Ascending(_)
Ascending(S) ==
    IF S = {} THEN <<>>
    ELSE LET m == CHOOSE x \in S : \A y \in S : x <= y
         IN  <<m>> \o Ascending(S \ {m})

RECURSIVE Descending(_)
Descending(S) ==
    IF S = {} THEN <<>>
    ELSE LET m == CHOOSE x \in S : \A y \in S : x >= y
         IN  <<m>> \o Descending(S \ {m})

\* __main__ has run to its end
MainReturned == 226 \in main_done /\ Quiet

\* C1 (as claimed): after the calls of __main__ and one process_all_requests,
\* car 0 has arrived at exactly [3, 7], car 1 at [4, 8] and car 2 at [5, 9].
C1_MainArrivalsAsClaimed ==
    MainReturned =>
        /\ Arrivals(0) = <<3, 7>>
        /\ Arrivals(1) = <<4, 8>>
        /\ Arrivals(2) = <<5, 9>>

\* C1 (amended): after the calls of __main__ and one process_all_requests,
\* car 0 has arrived at exactly [3, 5, 7] (the hall call at 5 is odd, so it is
\* also car 0's), car 1 at [4, 8] and car 2 at [5, 9].
C1_MainArrivals ==
    MainReturned =>
        /\ Arrivals(0) = <<3, 5, 7>>
        /\ Arrivals(1) = <<4, 8>>
        /\ Arrivals(2) = <<5, 9>>

C1_Witness ==
    /\ MainReturned
    /\ \A c \in Ids : CycleDone(c) /\ StartFloor(c) = 0 /\ StartDirection(c) = "IDLE"
    /\ StartHall(0) = {3, 5} /\ StartCabin(0) = {7}

\* C2: no request is lost. When a car's cycle has ended, the floors it arrived
\* at are exactly its cabin-request and hall-call floors of the cycle's start,
\* each arrived at once, and every arrival came before the store was cleared.
C2_NoRequestLost ==
    \A c \in Ids :
        CycleDone(c) =>
            /\ SeqRange(Arrivals(c)) = StartCabin(c) \cup StartHall(c)
            /\ Len(Arrivals(c)) = Cardinality(StartCabin(c) \cup StartHall(c))
            /\ \A i, j \in DOMAIN trace :
                   (/\ trace[i].car = c /\ trace[i].kind = "arrive"
                    /\ trace[j].car = c /\ trace[j].kind = "clear") => i < j

C2_Witness ==
    \E c \in Ids :
        /\ CycleDone(c)
        /\ StartCabin(c) \cap StartHall(c) # {}
        /\ Len(Arrivals(c)) = 1

\* C3: LOOK ordering. A cycle that starts at floor F with direction IDLE or UP
\* arrives at the pending floors above F in ascending order and only then at
\* the pending floors below F in descending order.
C3_LookOrdering ==
    (CycleDone(0) /\ StartDirection(0) \in {"IDLE", "UP"}) =>
        Without(Arrivals(0), StartFloor(0)) = Ascending(Above(0)) \o Descending(Below(0))

C3_Witness ==
    /\ CycleDone(0)
    /\ StartDirection(0) = "UP"
    /\ Cardinality(Above(0)) = 2
    /\ Cardinality(Below(0)) = 1

\* C4: after a car's cycle its cabin requests and hall calls are empty and its
\* status and direction are IDLE.
C4_ClearedAndIdle ==
    \A c \in Ids :
        CycleDone(c) =>
            /\ elevators[c].internal_requests = <<>>
            /\ elevators[c].external_requests = {}
            /\ elevators[c].status = "IDLE"
            /\ elevators[c].direction = "IDLE"

C4_Witness ==
    \E c \in Ids :
        /\ CycleDone(c)
        /\ StartCabin(c) # {}
        /\ StartHall(c) # {}
        /\ StartCabin(c) # StartHall(c)

\* C5: dispatch is a broadcast. With cars 0, 1 and 2, a hall call on a floor f
\* pending in no car leaves f pending in car 0 iff f is odd, in car 1 iff f is
\* even and in car 2 iff f is a fixed floor.
C5_Broadcast ==
    (/\ last_op.op = "handle_external_request"
     /\ ~last_op.repeat
     /\ Ids = {OddCar, EvenCar, FixedCar}) =>
        /\ last_op.floor \in Keys(elevators[OddCar].external_requests)
             <=> last_op.floor % 2 = 1
        /\ last_op.floor \in Keys(elevators[EvenCar].external_requests)
             <=> last_op.floor % 2 = 0
        /\ last_op.floor \in Keys(elevators[FixedCar].external_requests)
             <=> last_op.floor \in fixed_floors

\* an odd fixed floor has just been called and is pending in exactly two cars
C5_Witness ==
    /\ last_op.op = "handle_external_request"
    /\ ~last_op.repeat
    /\ Ids = {OddCar, EvenCar, FixedCar}
    /\ last_op.floor % 2 = 1
    /\ last_op.floor \in fixed_floors
    /\ Cardinality({c \in Ids : last_op.floor \in Keys(elevators[c].external_requests)}) = 2

\* C6 (as claimed): after a hall call, every store that holds the call's floor
\* records the call's direction, so a second call with another direction has
\* overwritten the first.
C6_SecondOverwrites ==
    last_op.op = "handle_external_request" =>
        \A c \in Ids : \A p \in elevators[c].external_requests :
            p[1] = last_op.floor => p[2] = last_op.dir

\* C6 (amended): a hall call changes no entry a store already holds, so for a
\* floor added twice with different directions the direction recorded remains
\* the first call's; and no store ever holds two entries for one floor.
C6_FirstDirectionKept ==
    /\ [](\A c \in Ids :
            Cardinality(Keys(elevators[c].external_requests))
                = Cardinality(elevators[c].external_requests))
    /\ [][last_op'.op = "handle_external_request" =>
            \A c \in Ids : \A p \in elevators[c].external_requests :
                p \in elevators'[c].external_requests]_vars

\* a floor pending with one direction has just been called with the other
C6_Witness ==
    /\ last_op.op = "handle_external_request"
    /\ last_op.repeat
    /\ \E c \in Ids : \E p \in elevators[c].external_requests :
           p[1] = last_op.floor /\ p[2] # last_op.dir

\* C7: no floor is twice in a car's cabin requests, and pressing a cabin button
\* whose floor is already pending changes nothing.
C7_CabinIdempotent ==
    /\ [](\A c \in Ids :
            Cardinality(SeqRange(elevators[c].internal_requests))
                = Len(elevators[c].internal_requests))
    /\ [][(last_op'.op = "press_internal_button" /\ last_op'.repeat) =>
            elevators' = elevators]_vars

\* a cabin button has just been pressed for a floor that was already pending
C7_Witness ==
    /\ last_op.op = "press_internal_button"
    /\ last_op.repeat
    /\ Len(SelectSeq(elevators[last_op.car].internal_requests,
                     LAMBDA f : f = last_op.floor)) = 1

\* the elevator car c's cycle started from, without any request for floor f
StartWithout(c, f) ==
    [start[c].e EXCEPT !.internal_requests = Without(@, f),
                       !.external_requests = {p \in @ : p[1] # f}]

PrevStop(evs, i, c) ==
    LET before == {j \in 1 .. (i - 1) : evs[j].kind = "arrive"}
    IN  IF before = {} THEN StartFloor(c)
        ELSE evs[CHOOSE j \in before : \A k \in before : k <= j].floor

Dist(a, b) == IF a > b THEN a - b ELSE b - a

\* C9: a move from stop p to stop t # p reports exactly |t - p| floors, those
\* from the one next to p up to t in travel order, all before the arrival at
\* t; no floor is reported outside a move; so consecutive reported positions
\* of a car differ by one floor.
C9_TraversalReporting ==
    \A c \in Ids :
        start[c].begun =>
            LET E == EventsOf(c)
                P == <<StartFloor(c)>> \o Traversed(c)
            IN  /\ \A i \in DOMAIN E :
                       E[i].kind = "arrive" =>
                           LET p == PrevStop(E, i, c)
                               t == E[i].floor
                               n == Dist(t, p)
                           IN  /\ i > n
                               /\ \A k \in 1 .. n :
                                      /\ E[i - n + k - 1].kind = "at"
                                      /\ E[i - n + k - 1].floor
                                           = IF t > p THEN p + k ELSE p - k
                               /\ (i - n > 1) => E[i - n - 1].kind # "at"
                /\ \A i \in DOMAIN E :
                       E[i].kind = "at" =>
                           \E j \in (i + 1) .. Len(E) :
                               /\ E[j].kind = "arrive"
                               /\ \A k \in i .. (j - 1) : E[k].kind = "at"
                /\ \A j \in 1 .. (Len(P) - 1) : Dist(P[j + 1], P[j]) = 1

\* a car went up one floor and then down two
C9_Witness ==
    \E c \in Ids :
        /\ CycleDone(c)
        /\ StartFloor(c) = 1
        /\ Arrivals(c) = <<2, 0>>
        /\ Traversed(c) = <<2, 1, 0>>

\* C10 (as claimed): each arrival is followed by one notification, and the
\* display shows the car's id, its new floor and its new direction.
C10_DisplayShowsArrival ==
    /\ \A i \in DOMAIN trace :
           trace[i].kind = "arrive" =>
               /\ i < Len(trace)
               /\ trace[i + 1] = Ev("display", trace[i].car, trace[i].floor, trace[i].dir)
    /\ \A i \in DOMAIN trace :
           trace[i].kind = "display" => (i > 1 /\ trace[i - 1].kind = "arrive")

\* what the step being taken adds to the record
NewEvents == SubSeq(trace', Len(trace) + 1, Len(trace'))

\* C11: a car's status is IDLE or STOPPED in every state, never MOVING; a
\* step in which a car arrives at a floor leaves its status STOPPED whatever
\* it was; and a car's status becomes IDLE only by lines 96-99 at the end of
\* its cycle.
C11_StatusMachine ==
    /\ [](\A c \in Ids : elevators[c].status \in {"IDLE", "STOPPED"})
    /\ [][\A c \in Ids :
            /\ (\E i \in DOMAIN NewEvents :
                    NewEvents[i].kind = "arrive" /\ NewEvents[i].car = c)
                => elevators'[c].status = "STOPPED"
            /\ (elevators[c].status # "IDLE" /\ elevators'[c].status = "IDLE")
                => (/\ frame.pc = "end96" /\ frame.e.id = c
                    /\ frame'.pc = "return"
                    /\ NewEvents = <<Ev("clear", c, -1, "IDLE")>>)]_vars

\* a car that was STOPPED by its first arrival has arrived a second time
C11_Witness ==
    \E c \in Ids :
        /\ frame.pc \notin {"ready", "return"}
        /\ frame.e.id = c
        /\ Len(Arrivals(c)) = 2
        /\ elevators[c].status = "STOPPED"

\* the cars the step being taken changes
Changed == {c \in Ids : elevators'[c] # elevators[c]}

\* the step being taken is a line of a processing call on car c
Processing(c) ==
    \/ frame.pc # "ready" /\ frame.e.id = c
    \/ frame'.pc # "ready" /\ frame'.e.id = c

\* C12: cars are isolated. With process_all_requests taken as the calls of
\* process_requests it makes, one car after another: a step of a processing
\* call on car i changes no other car; a step that changes a car's cabin
\* requests changes nothing of any other car; and a step that changes more
\* than one car is a hall call, which leaves every car's floor, direction,
\* status and cabin requests as they were.
C12_CarsIsolated ==
    [][/\ \A c \in Ids : Processing(c) => Changed \subseteq {c}
       /\ \A c \in Ids :
              elevators'[c].internal_requests # elevators[c].internal_requests
                  => Changed = {c}
       /\ Cardinality(Changed) > 1 =>
              /\ Quiet /\ Quiet'
              /\ \A c \in Ids :
                     /\ elevators'[c].current_floor = elevators[c].current_floor
                     /\ elevators'[c].direction = elevators[c].direction
                     /\ elevators'[c].status = elevators[c].status
                     /\ elevators'[c].internal_requests = elevators[c].internal_requests
       /\ (Quiet /\ Quiet') =>
              \A c \in Ids :
                  /\ elevators'[c].current_floor = elevators[c].current_floor
                  /\ elevators'[c].direction = elevators[c].direction
                  /\ elevators'[c].status = elevators[c].status]_vars

\* one hall call for floor 1 went to the stores of car 0 and car 2; car 0 has
\* since arrived there in its cycle, and car 2 still holds the call
C12_Witness ==
    /\ frame.pc \notin {"ready", "return"}
    /\ frame.e.id = 0
    /\ Arrivals(0) = <<1>>
    /\ 2 \in Ids
    /\ 1 \in Keys(elevators[2].external_requests)
    /\ elevators[2].current_floor = 0

\* the store of car c is empty
Cleared(c) ==
    elevators[c].internal_requests = <<>> /\ elevators[c].external_requests = {}

\* C13: a processing call that has begun reaches its end. A running call of
\* process_requests leads to its return with its car's store cleared (the
\* running call changes only by its own steps, so the return is its own), and
\* a call of process_all_requests leads to its return with every car's cycle
\* done and every store cleared. No step in between fails or blocks.
C13_Termination ==
    /\ (frame.pc \notin {"ready", "return"})
           ~> (frame.pc = "return" /\ CycleDone(frame.e.id) /\ Cleared(frame.e.id))
    /\ (all_next # -1)
           ~> (all_next = -1 /\ \A c \in Ids : CycleDone(c) /\ Cleared(c))

\* process_all_requests is running on three cars: car 0 is done, car 1 is in
\* its cycle, and car 2 waits with a pending request
C13_Witness ==
    /\ all_next = 2
    /\ 2 \in Ids
    /\ CycleDone(0)
    /\ frame.pc = "while87"
    /\ frame.e.id = 1
    /\ frame.up_heap # {}
    /\ ~Cleared(2)

\* C14: process_all_requests takes the cars one after another in id order.
\* While it runs, the cars whose cycle has begun are those below the loop's
\* position; the record never returns to an earlier car; a car's clear is its
\* last event; and every event of a car comes after the clear of each car
\* before it.
C14_NoInterleaving ==
    /\ \A i, j \in DOMAIN trace : i < j => trace[i].car <= trace[j].car
    /\ \A i, j \in DOMAIN trace :
           (i < j /\ trace[i].kind = "clear") => trace[i].car < trace[j].car
    /\ all_next # -1 =>
           /\ \A c \in Ids : start[c].begun <=> c < all_next
           /\ \A j \in DOMAIN trace : \A c \in Ids :
                  c < trace[j].car =>
                      \E i \in 1 .. (j - 1) : trace[i].kind = "clear" /\ trace[i].car = c

\* process_all_requests has taken three cars, and car 0 and car 2 have both
\* travelled
C14_Witness ==
    /\ all_next = 3
    /\ frame.pc = "ready"
    /\ Traversed(0) # <<>>
    /\ Traversed(2) # <<>>
    /\ CycleDone(1)

SetMin(S) == CHOOSE x \in S : \A y \in S : x <= y
SetMax(S) == CHOOSE x \in S : \A y \in S : x >= y

\* the floors car c has been at since its cycle began, one per floor passed
Positions(c) == <<StartFloor(c)>> \o Traversed(c)

\* C15: at every point of a cycle, every floor the car has been reported at,
\* has arrived at or is at lies between the lowest and the highest of its
\* start floor and the floors pending at the start, hence within the
\* building when the pending floors are; and the car never travels up after
\* having travelled down, so it reverses at most once (from up to down).
C15_SinglePassBounds ==
    \A c \in Ids :
        start[c].begun =>
            LET S == StartPending(c) \cup {StartFloor(c)}
                P == Positions(c)
            IN  /\ \A i \in DOMAIN trace :
                       (trace[i].car = c /\ trace[i].kind \in {"at", "arrive"}) =>
                           /\ SetMin(S) <= trace[i].floor
                           /\ trace[i].floor <= SetMax(S)
                           /\ (S \subseteq Floors => trace[i].floor \in Floors)
                /\ SetMin(S) <= elevators[c].current_floor
                /\ elevators[c].current_floor <= SetMax(S)
                /\ \A j, k \in 1 .. (Len(P) - 1) :
                       (j < k /\ P[j + 1] < P[j]) => P[k + 1] < P[k]

\* a car that started at floor 2 of five, asked to floors 1 and 3, went up
\* to 3 and down to 1 and is done
C15_Witness ==
    /\ CycleDone(0)
    /\ StartFloor(0) = 2
    /\ StartPending(0) = {1, 3}
    /\ Traversed(0) = <<3, 2, 1>>
    /\ num_floors = LookFloors

\* every order the list ElevatorController.strategies could be given in
StrategyOrders ==
    {p \in [1 .. Len(strategies) -> SeqRange(strategies)] :
        \A i, j \in 1 .. Len(strategies) : p[i] = p[j] => i = j}

\* C16: the order of the strategies does not matter. Whatever the state a
\* hall call is made in, the state it leaves is the one the three strategies
\* produce when applied in any of their six orders.
C16_OrderIrrelevant ==
    [][last_op'.op = "handle_external_request" =>
          \A p \in StrategyOrders :
              ApplyStrategies(p, elevators, last_op'.floor, last_op'.dir) = elevators']_vars

\* a hall call for a floor that is odd and fixed, pending nowhere before, has
\* been stored by two strategies, in car 0 and in car 2
C16_Witness ==
    /\ last_op.op = "handle_external_request"
    /\ ~last_op.repeat
    /\ Ids = {OddCar, EvenCar, FixedCar}
    /\ <<last_op.floor, last_op.dir>> \in elevators[OddCar].external_requests
    /\ <<last_op.floor, last_op.dir>> \in elevators[FixedCar].external_requests

\* C17: whenever no cycle is in progress every car's direction and status are
\* IDLE; a request call (hall call or cabin request) leaves every car's
\* floor, direction and status as they were; so every cycle starts with
\* direction IDLE, reaches line 86 with direction IDLE and goes on to the
\* scan of the floors above.
C17_CycleStartsIdle ==
    /\ [](/\ frame.pc = "ready" =>
               \A c \in Ids :
                   elevators[c].direction = "IDLE" /\ elevators[c].status = "IDLE"
          /\ \A c \in Ids :
                 start[c].begun =>
                     StartDirection(c) = "IDLE" /\ start[c].e.status = "IDLE"
          /\ (frame.pc = "for78" /\ frame.requests = {}) => frame.e.direction = "IDLE")
    /\ [][/\ (frame.pc = "for78" /\ frame.requests = {}) => frame'.pc = "while87"
          /\ (Quiet /\ Quiet' /\ elevators' # elevators) =>
                 \A c \in Ids :
                     /\ elevators'[c].current_floor = elevators[c].current_floor
                     /\ elevators'[c].direction = elevators[c].direction
                     /\ elevators'[c].status = elevators[c].status]_vars

\* car 0, back at floor 0 with a floor above pending, is in its scan of the
\* floors above, while another car rests at floor 1 after a cycle of its own
C17_Witness ==
    /\ frame.pc = "while87"
    /\ frame.e.id = 0
    /\ frame.up_heap # {}
    /\ \E c \in Ids \ {0} :
           /\ elevators[c].current_floor = 1
           /\ elevators[c].direction = "IDLE"
           /\ elevators[c].status = "IDLE"

\* the elevators els with the direction of every hall call replaced by UP:
\* what the run of the same calls with every hall call made for UP holds
AllUp(els) ==
    [c \in DOMAIN els |->
        [els[c] EXCEPT !.external_requests = {<<p[1], "UP">> : p \in @}]]

\* what a cycle of elevator e can print and leave behind
Outcomes(e) == {<<fin.out, fin.e>> : fin \in ProcessRequests(e)}

\* C18: the direction of hall calls has no influence. Every run is matched,
\* call by call, by the run of the same calls in which every hall call is
\* made for UP: a hall call and a cabin request leave the two runs' elevators
\* equal up to the directions stored, and in process_all_requests each car's
\* cycle prints the same traversal and arrival floors in both and leaves the
\* same elevator, current floor included. Two runs that differ only in
\* hall-call directions are matched by the same run, hence by each other.
C18_DirectionIgnored ==
    [][/\ last_op'.op = "handle_external_request" =>
              AllUp(elevators') = HandleExternalRequest(AllUp(elevators), last_op'.floor, "UP")
       /\ last_op'.op = "press_internal_button" =>
              AllUp(elevators')
                  = [AllUp(elevators) EXCEPT
                        ![last_op'.car] = PressInternalButton(@, last_op'.floor)]
       /\ (trace = <<>> /\ trace' # <<>>) =>
              \A c \in Ids :
                  /\ <<SelectSeq(trace', LAMBDA ev : ev.car = c), elevators'[c]>>
                         \in Outcomes(elevators[c])
                  /\ Outcomes(AllUp(elevators)[c]) = Outcomes(elevators[c])]_vars

\* a car has gone up to a floor whose hall call asked for DOWN, and further
\* up to a cabin request
C18_Witness ==
    \E c \in Ids :
        /\ CycleDone(c)
        /\ \E p \in start[c].e.external_requests :
               /\ p[2] = "DOWN"
               /\ p[1] > StartFloor(c)
               /\ \E f \in StartCabin(c) : f > p[1]
               /\ p[1] \in SeqRange(Arrivals(c))

\* the car a strategy targets, and the floors it is meant for
Target(strategy) ==
    CASE strategy = "OddDispatcher" -> 0
      [] strategy = "EvenDispatcher" -> 1
      [] strategy = "FixedDispatcher" -> 2

Matches(strategy, floor) ==
    CASE strategy = "OddDispatcher" -> floor % 2 = 1
      [] strategy = "EvenDispatcher" -> floor % 2 = 0
      [] strategy = "FixedDispatcher" -> floor \in fixed_floors

\* C19: a strategy whose target car the building does not have does nothing;
\* a hall call changes a car only if a strategy that matches the floor
\* targets it; so a hall call none of whose matching strategies has its car
\* leaves every car as it was, the floor pending nowhere new.
C19_MissingTargetCar ==
    [][last_op'.op = "handle_external_request" =>
          /\ \A i \in DOMAIN strategies :
                 Target(strategies[i]) \notin Ids =>
                     AssignElevator(strategies[i], elevators, last_op'.floor, last_op'.dir)
                         = elevators
          /\ \A c \in Ids :
                 elevators'[c] # elevators[c] =>
                     \E i \in DOMAIN strategies :
                         Target(strategies[i]) = c /\ Matches(strategies[i], last_op'.floor)
          /\ (\A i \in DOMAIN strategies :
                  Matches(strategies[i], last_op'.floor) => Target(strategies[i]) \notin Ids)
                 => elevators' = elevators]_vars

\* in a building of one car, a hall call for an even floor has just been made
\* and is pending nowhere, while the car holds a cabin request
C19_Witness ==
    /\ Ids = {0}
    /\ last_op.op = "handle_external_request"
    /\ last_op.floor % 2 = 0
    /\ last_op.floor \notin Keys(elevators[0].external_requests)
    /\ elevators[0].internal_requests # <<>>

\* where a cycle of car c that started with direction IDLE leaves the car
RestingFloor(c) ==
    IF Below(c) # {} THEN SetMin(Below(c))
    ELSE IF Above(c) # {} THEN SetMax(Above(c))
    ELSE StartFloor(c)

\* C20: a finished cycle leaves the car at the lowest floor that was pending
\* below its start floor, else at the highest that was pending above it, else
\* at its start floor. The car's floor changes by nothing but a cycle of its
\* own, and a cycle starts from the floor the car is at: that floor is what
\* its pending floors are split against into above (ascending, first) and
\* below (descending, after).
C20_RestingFloor ==
    /\ [](\A c \in Ids :
             CycleDone(c) =>
                 /\ elevators[c].current_floor = RestingFloor(c)
                 /\ Without(Arrivals(c), StartFloor(c))
                        = Ascending(Above(c)) \o Descending(Below(c)))
    /\ [][\A c \in Ids :
             IF start'[c].begun /\ ~start[c].begun
             THEN start'[c].e.current_floor = elevators[c].current_floor
             ELSE elevators'[c].current_floor = elevators[c].current_floor]_vars

\* a car that an earlier cycle had left at floor 2 was asked to floor 1 only,
\* went down and rests at floor 1
C20_Witness ==
    \E c \in Ids :
        /\ CycleDone(c)
        /\ StartFloor(c) = 2
        /\ StartPending(c) = {1}
        /\ Arrivals(c) = <<1>>
        /\ elevators[c].current_floor = 1

====
